---- MODULE Spec2Model ----
(***************************************************************************)
(* A model of the voice chatbot: the command-line pipeline of chatbot.py   *)
(* (main, speech2text, prompt2answer) and the two button handlers of       *)
(* gradio_app.py (transcribe_audio, generate_ai_response).                 *)
(*                                                                         *)
(* A Python str is a sequence of one-character strings; None is a value    *)
(* that is no str.  print() appends a line to out.                         *)
(***************************************************************************)
EXTENDS Integers, Sequences, FiniteSets, TLC

VARIABLES entry, argv, files, pc, transcript, clean_transcript, response,
          exit_code, transcription_output, answer_output, out, s2t, p2a, ui

vars == <<entry, argv, files, pc, transcript, clean_transcript, response,
          exit_code, transcription_output, answer_output, out, s2t, p2a, ui>>

\* ---------------------------------------------------------------- bounds
\* Longest text the speech engine or the model process produces.
MaxLen == 2
\* Seconds of wall-clock time that pass in one Tick.
TickSeconds == 100

\* ------------------------------------------------------- string literals
UsageMsg == <<"U", "s", "a", "g", "e", ":", " ", "p", "y", "t", "h", "o", "n", " ", "c", "h", "a", "t", "b", "o", "t", ".", "p", "y", " ", "<", "a", "u", "d", "i", "o", "_", "f", "i", "l", "e", "_", "p", "a", "t", "h", ">">>
StartedMsg == <<"C", "h", "a", "t", "b", "o", "t", " ", "s", "t", "a", "r", "t", "e", "d">>
NotFoundPrefix == <<"E", "r", "r", "o", "r", ":", " ", "A", "u", "d", "i", "o", " ", "f", "i", "l", "e", " ", "'">>
NotFoundSuffix == <<"'", " ", "n", "o", "t", " ", "f", "o", "u", "n", "d">>
TranscribeFailedMsg == <<"F", "a", "i", "l", "e", "d", " ", "t", "o", " ", "t", "r", "a", "n", "s", "c", "r", "i", "b", "e", " ", "a", "u", "d", "i", "o">>
TranscriptPrefix == <<"T", "r", "a", "n", "s", "c", "r", "i", "p", "t", ":", " ">>
CleanPrefix == <<"C", "l", "e", "a", "n", " ", "t", "r", "a", "n", "s", "c", "r", "i", "p", "t", ":", " ", "\"">>
CleanSuffix == <<"\"">>
ResponseFailedMsg == <<"F", "a", "i", "l", "e", "d", " ", "t", "o", " ", "g", "e", "t", " ", "r", "e", "s", "p", "o", "n", "s", "e", " ", "f", "r", "o", "m", " ", "O", "l", "l", "a", "m", "a">>
ChatbotPrefix == <<"C", "h", "a", "t", "b", "o", "t", ":", " ">>
S2TErrorPrefix == <<"E", "r", "r", "o", "r", " ", "t", "r", "a", "n", "s", "c", "r", "i", "b", "i", "n", "g", " ", "a", "u", "d", "i", "o", ":", " ">>
RunningPrefix == <<"R", "u", "n", "n", "i", "n", "g", " ", "O", "l", "l", "a", "m", "a", " ", "w", "i", "t", "h", " ", "p", "r", "o", "m", "p", "t", ":", " ">>
OllamaErrorPrefix == <<"E", "r", "r", "o", "r", " ", "r", "u", "n", "n", "i", "n", "g", " ", "O", "l", "l", "a", "m", "a", ":", " ">>
TimedOutMsg == <<"O", "l", "l", "a", "m", "a", " ", "c", "o", "m", "m", "a", "n", "d", " ", "t", "i", "m", "e", "d", " ", "o", "u", "t">>
NoAudioMsg == <<"N", "o", " ", "a", "u", "d", "i", "o", " ", "f", "i", "l", "e", " ", "u", "p", "l", "o", "a", "d", "e", "d">>
UITranscribeErrorMsg == <<"E", "r", "r", "o", "r", ":", " ", "C", "o", "u", "l", "d", " ", "n", "o", "t", " ", "t", "r", "a", "n", "s", "c", "r", "i", "b", "e", " ", "t", "h", "e", " ", "a", "u", "d", "i", "o", " ", "f", "i", "l", "e", ".">>
PleaseTranscribeMsg == <<"P", "l", "e", "a", "s", "e", " ", "t", "r", "a", "n", "s", "c", "r", "i", "b", "e", " ", "a", "n", " ", "a", "u", "d", "i", "o", " ", "f", "i", "l", "e", " ", "f", "i", "r", "s", "t", ".">>
UIResponseErrorMsg == <<"E", "r", "r", "o", "r", ":", " ", "C", "o", "u", "l", "d", " ", "n", "o", "t", " ", "g", "e", "n", "e", "r", "a", "t", "e", " ", "A", "I", " ", "r", "e", "s", "p", "o", "n", "s", "e", ".">>
ErrorMarker == <<"E", "r", "r", "o", "r", ":">>
\* subprocess.run(..., timeout=300)
timeout == 300
\* The argument vector's fixed part: ['ollama', 'run', 'mistral:latest', ...]
OllamaCommand == <<"ollama", "run", "mistral:latest">>

\* ------------------------------------------------------- Python values
\* None: a one-element tuple whose element is no character, so it differs
\* from every str.
None == <<"None">>
\* str(None)
NoneText == <<"N", "o", "n", "e">>
\* The characters shlex.quote leaves alone: [\w@%+=:,./-] (ASCII).
Letters == <<"a", "b", "c", "d", "e", "f", "g", "h", "i", "j", "k", "l", "m", "n", "o", "p", "q", "r", "s", "t", "u", "v", "w", "x", "y", "z", "A", "B", "C", "D", "E", "F", "G", "H", "I", "J", "K", "L", "M", "N", "O", "P", "Q", "R", "S", "T", "U", "V", "W", "X", "Y", "Z">>
Digits == <<"0", "1", "2", "3", "4", "5", "6", "7", "8", "9">>
Punct == <<"_", "@", "%", "+", "=", ":", ",", ".", "/", "-">>
SafeChars == {Letters[i] : i \in DOMAIN Letters} \cup {Digits[i] : i \in DOMAIN Digits}
             \cup {Punct[i] : i \in DOMAIN Punct}
\* What str.strip() removes at both ends.
Whitespace == {" ", "\t", "\n", "\r", "\f"}

RECURSIVE lstrip(_)
lstrip(s) == IF s = <<>> THEN s
             ELSE IF Head(s) \in Whitespace THEN lstrip(Tail(s)) ELSE s

RECURSIVE rstrip(_)
rstrip(s) == IF s = <<>> THEN s
             ELSE IF s[Len(s)] \in Whitespace THEN rstrip(SubSeq(s, 1, Len(s) - 1)) ELSE s

\* str.strip()
strip(s) == rstrip(lstrip(s))

\* str.startswith(prefix)
startswith(s, prefix) == Len(s) >= Len(prefix) /\ SubSeq(s, 1, Len(prefix)) = prefix

\* sub in s
Contains(s, sub) == \E i \in 1..(Len(s) - Len(sub) + 1) : SubSeq(s, i, i + Len(sub) - 1) = sub

\* str(x) for a str or None
str(x) == IF x = None THEN NoneText ELSE x

\* s.replace("'", "'\"'\"'")
RECURSIVE replace_quotes(_)
replace_quotes(s) == IF s = <<>> THEN <<>>
                     ELSE (IF Head(s) = "'" THEN <<"'", "\"", "'", "\"", "'">> ELSE <<Head(s)>>)
                          \o replace_quotes(Tail(s))

\* shlex.quote(s)
shlex_quote(s) == IF s = <<>> THEN <<"'", "'">>
                  ELSE IF \A i \in DOMAIN s : s[i] \in SafeChars THEN s
                  ELSE <<"'">> \o replace_quotes(s) \o <<"'">>

\* ------------------------------------------------------------ input sets
RECURSIVE SeqsUpTo(_, _)
SeqsUpTo(S, n) == IF n = 0 THEN {<<>>}
                  ELSE LET P == SeqsUpTo(S, n - 1)
                       IN  P \cup {Append(s, c) : s \in {p \in P : Len(p) = n - 1}, c \in S}

\* A prompt with shell metacharacters.
InjectionText == <<"\"", ";", " ", "r", "m", " ", "-", "r", "f", " ", "/", ";", " ", "e", "c", "h", "o">>
\* Texts the speech engine can produce: silence, blanks, words, shell
\* metacharacters, and speech that happens to read like the UI's own strings.
TranscriptTexts == SeqsUpTo({"a", " ", ";"}, MaxLen)
                   \cup {InjectionText, NoAudioMsg, ErrorMarker \o <<"a">>}
\* What the model process can write to its standard output.
StdoutTexts == SeqsUpTo({"a", " ", "\n"}, MaxLen)
\* What it can write to its standard error, and an exception's message.
StderrTexts == {<<>>, <<"e">>}
ExcMsg == <<"e">>
\* Audio file paths.
PathA == <<"a">>
PathB == <<"b">>
Paths == {PathA, PathB}
ProgName == <<"c">>

\* sys.argv of a command-line run: no argument, a path, or a path and more.
ArgvChoices == {<<ProgName>>, <<ProgName, PathA>>, <<ProgName, PathB>>,
                <<ProgName, PathA, PathB>>}

\* ------------------------------------------------------- call records
\* The speech2text call of the current run or handler call.
s2t0 == [n |-> 0, audio_path |-> None, cause |-> "none", ret |-> None]
\* The prompt2answer call of the current run or handler call, and the child
\* process it waits for.
p2a0 == [n |-> 0, st |-> "none", prompt |-> None, spawned |-> <<>>, elapsed |-> 0,
         child |-> "none", cause |-> "none", ret |-> None]
\* The UI handler call in progress or last finished, and how the last
\* transcribe_audio call ended.
ui0 == [handler |-> "none", st |-> "none", ret |-> None, transcribed |-> "never"]

\* ------------------------------------------------------- chatbot.py
\* os.path.exists(audio_path)
os_path_exists(audio_path) == audio_path \in files

\* What whisper.load_model("base").transcribe(audio_path) can do: raise, or
\* give a result whose "text" is any text; a file that is not there raises.
WhisperOutcomes(audio_path) ==
    {[kind |-> "raise", text |-> <<>>]}
    \cup (IF os_path_exists(audio_path)
          THEN {[kind |-> "ok", text |-> t] : t \in TranscriptTexts}
          ELSE {})

\* speech2text without its exception handler.
speech2text_uncaught(audio_path, eng) ==
    IF eng.kind = "raise"
    THEN [ret |-> None, out |-> <<>>, exc |-> TRUE]
    ELSE [ret |-> eng.text, out |-> <<>>, exc |-> FALSE]

\* speech2text(audio_path): the value returned, the lines printed, and whether
\* an exception leaves the function.
speech2text(audio_path, eng) ==
    IF eng.kind = "raise"
    THEN [ret |-> None, out |-> <<S2TErrorPrefix \o ExcMsg>>, exc |-> FALSE]
    ELSE [ret |-> eng.text, out |-> <<>>, exc |-> FALSE]

\* The argument vector with line 25's sanitized_prompt in the prompt's place.
ollama_args_quoted(prompt) == OllamaCommand \o <<shlex_quote(prompt)>>

\* The argument vector prompt2answer hands to subprocess.run.
ollama_args(prompt) == OllamaCommand \o <<prompt>>

\* subprocess.run without shell=True: one process, the program args[0], the
\* arguments as given.
Popen(args) == [program |-> args[1], argv |-> args]

\* subprocess.run(..., timeout=300) gives up once the time has passed.
run_timed_out(elapsed) == elapsed >= timeout

\* prompt2answer without the TimeoutExpired clause of lines 40-42: the
\* general handler of lines 43-45 takes the timeout.
prompt2answer_return_no_timeout_clause(done) ==
    IF done.how = "exit"
    THEN (IF done.returncode # 0
          THEN [ret |-> None, out |-> <<OllamaErrorPrefix \o done.stderr>>, exc |-> FALSE]
          ELSE [ret |-> strip(done.stdout), out |-> <<>>, exc |-> FALSE])
    ELSE [ret |-> None, out |-> <<OllamaErrorPrefix \o ExcMsg>>, exc |-> FALSE]

\* prompt2answer after subprocess.run ended as `done` says: the value
\* returned, the lines printed, and whether an exception leaves the function.
prompt2answer_return(done) ==
    CASE done.how = "exit" ->
           IF done.returncode # 0
           THEN [ret |-> None, out |-> <<OllamaErrorPrefix \o done.stderr>>, exc |-> FALSE]
           ELSE [ret |-> strip(done.stdout), out |-> <<>>, exc |-> FALSE]
      [] done.how = "timeout" ->
           [ret |-> None, out |-> <<TimedOutMsg>>, exc |-> FALSE]
      [] OTHER ->
           [ret |-> None, out |-> <<OllamaErrorPrefix \o ExcMsg>>, exc |-> FALSE]

\* How a prompt2answer call ended.
Cause(done) == CASE done.how = "exit" -> (IF done.returncode = 0 THEN "ok" ELSE "nonzero")
                 [] done.how = "timeout" -> "timeout"
                 [] OTHER -> "launch"

\* main without the check of line 56.
audio_missing_unchecked(audio_path) == FALSE
\* main, line 56
audio_missing(audio_path) == ~ os_path_exists(audio_path)
\* main without the check of line 61.
transcribe_failed_unchecked(t) == FALSE
\* main, line 61
transcribe_failed(t) == t = None
\* main without the check of line 76.
response_failed_unchecked(r) == FALSE
\* main, line 76
response_failed(r) == r = None

\* ------------------------------------------------------- gradio_app.py
\* Line 24 without its startswith("Error:") test.
not_actionable_no_marker(transcribed_text) ==
    \/ transcribed_text = None
    \/ transcribed_text = <<>>
    \/ transcribed_text = NoAudioMsg

\* generate_ai_response, line 24
not_actionable(transcribed_text) ==
    \/ transcribed_text = None
    \/ transcribed_text = <<>>
    \/ transcribed_text = NoAudioMsg
    \/ startswith(transcribed_text, ErrorMarker)

\* generate_ai_response, lines 28-31
ui_answer(r) == IF r = None THEN UIResponseErrorMsg ELSE r

\* ------------------------------------------------------- initial state
Init ==
    /\ entry \in {"cli", "ui", "lib"}
    /\ argv \in (IF entry = "cli" THEN ArgvChoices ELSE {<<ProgName>>})
    /\ files \in {{}, {PathA}}
    /\ pc = (IF entry = "cli" THEN "Start" ELSE "Idle")
    /\ transcript = None
    /\ clean_transcript = None
    /\ response = None
    /\ exit_code = -1
    /\ transcription_output = <<>>
    /\ answer_output = <<>>
    /\ out = <<>>
    /\ s2t = s2t0
    /\ p2a = p2a0
    /\ ui = ui0

\* ------------------------------------------------------- prompt2answer
\* The caller's code after prompt2answer comes back with r, `printed` being
\* the lines on the terminal by then: main lines 76-78, generate_ai_response
\* lines 28-31, or nothing for a direct call.
AfterAnswer(r, printed) ==
    CASE entry = "cli" ->
           /\ response' = r.ret
           /\ IF r.exc
              THEN pc' = "Crashed" /\ exit_code' = 1 /\ out' = printed
              ELSE IF response_failed(r.ret)
              THEN pc' = "Errored" /\ exit_code' = 1
                   /\ out' = printed \o <<ResponseFailedMsg>>
              ELSE pc' = "Answered" /\ exit_code' = exit_code /\ out' = printed
           /\ UNCHANGED <<answer_output, ui>>
      [] entry = "ui" ->
           /\ IF r.exc
              THEN ui' = [ui EXCEPT !.handler = "generate_ai_response", !.st = "raised",
                                    !.ret = None]
                   /\ answer_output' = answer_output
              ELSE ui' = [ui EXCEPT !.handler = "generate_ai_response", !.st = "returned",
                                    !.ret = ui_answer(r.ret)]
                   /\ answer_output' = ui_answer(r.ret)
           /\ out' = printed
           /\ UNCHANGED <<pc, response, exit_code>>
      [] OTHER ->
           /\ out' = printed
           /\ UNCHANGED <<pc, response, exit_code, answer_output, ui>>

\* prompt2answer(prompt), lines 23-33, the call number calls + 1 of its run:
\* print the prompt and start the process (line 25's sanitized_prompt is
\* computed and never used);
\* when it cannot be started the exception handler of lines 43-45 ends the call.
Begin_prompt2answer(prompt, printed, calls) ==
    LET line == <<RunningPrefix \o prompt>>
        call == [p2a0 EXCEPT !.n = calls + 1, !.prompt = prompt]
    IN  \/ \E child \in {"terminates", "hangs"} :
             /\ p2a' = [call EXCEPT !.st = "running", !.child = child,
                                    !.spawned = <<Popen(ollama_args(prompt))>>]
             /\ out' = printed \o line
             /\ ui' = (IF entry = "ui"
                       THEN [ui EXCEPT !.handler = "generate_ai_response",
                                       !.st = "running", !.ret = None]
                       ELSE ui)
             /\ UNCHANGED <<pc, response, exit_code, answer_output>>
        \/ LET done == [how |-> "launch"]
               r == prompt2answer_return(done)
           IN  /\ p2a' = [call EXCEPT !.st = "returned", !.cause = Cause(done), !.ret = r.ret]
               /\ AfterAnswer(r, printed \o line \o r.out)

\* The end of a running prompt2answer call, lines 35-45.
End_prompt2answer(done) ==
    LET r == prompt2answer_return(done)
    IN  /\ p2a' = [p2a EXCEPT !.st = "returned", !.cause = Cause(done), !.ret = r.ret]
        /\ AfterAnswer(r, out \o r.out)

\* The child process exits before the time is up.
ChildExit ==
    /\ p2a.st = "running"
    /\ p2a.child = "terminates"
    /\ ~ run_timed_out(p2a.elapsed)
    /\ \E rc \in {0, 1}, so \in StdoutTexts, se \in StderrTexts :
         End_prompt2answer([how |-> "exit", returncode |-> rc, stdout |-> so, stderr |-> se])
    /\ UNCHANGED <<entry, argv, files, transcript, clean_transcript,
                   transcription_output, s2t>>

\* Time passes while subprocess.run waits.
Tick ==
    /\ p2a.st = "running"
    /\ ~ run_timed_out(p2a.elapsed)
    /\ p2a' = [p2a EXCEPT !.elapsed = @ + TickSeconds]
    /\ UNCHANGED <<entry, argv, files, pc, transcript, clean_transcript, response,
                   exit_code, transcription_output, answer_output, out, s2t, ui>>

\* subprocess.run kills the child and raises TimeoutExpired, lines 40-42.
Expire ==
    /\ p2a.st = "running"
    /\ run_timed_out(p2a.elapsed)
    /\ End_prompt2answer([how |-> "timeout"])
    /\ UNCHANGED <<entry, argv, files, transcript, clean_transcript,
                   transcription_output, s2t>>

\* ------------------------------------------------------- main
\* main lines 48-58: the argument and the audio file are checked.
MainValidate ==
    /\ entry = "cli" /\ pc = "Start"
    /\ IF Len(argv) < 2
       THEN /\ out' = <<UsageMsg>>
            /\ pc' = "Errored" /\ exit_code' = 1
       ELSE LET audio_path == argv[2]
            IN  IF audio_missing(audio_path)
                THEN /\ out' = <<StartedMsg, NotFoundPrefix \o audio_path \o NotFoundSuffix>>
                     /\ pc' = "Errored" /\ exit_code' = 1
                ELSE /\ out' = <<StartedMsg>>
                     /\ pc' = "AudioValidated" /\ exit_code' = exit_code
    /\ UNCHANGED <<entry, argv, files, transcript, clean_transcript, response,
                   transcription_output, answer_output, s2t, p2a, ui>>

\* main lines 60-73: speech2text is called and the transcript is cleaned.
MainTranscribe ==
    /\ entry = "cli" /\ pc = "AudioValidated"
    /\ \E eng \in WhisperOutcomes(argv[2]) :
         LET r == speech2text(argv[2], eng)
             printed == out \o r.out
         IN  /\ s2t' = [n |-> s2t.n + 1, audio_path |-> argv[2], cause |-> eng.kind,
                        ret |-> r.ret]
             /\ transcript' = r.ret
             /\ IF r.exc
                THEN /\ pc' = "Crashed" /\ exit_code' = 1 /\ out' = printed
                     /\ clean_transcript' = clean_transcript
                ELSE IF transcribe_failed(r.ret)
                THEN /\ pc' = "Errored" /\ exit_code' = 1
                     /\ out' = printed \o <<TranscribeFailedMsg>>
                     /\ clean_transcript' = clean_transcript
                ELSE /\ pc' = "Transcribed" /\ exit_code' = exit_code
                     /\ clean_transcript' = strip(str(r.ret))
                     /\ out' = printed \o <<TranscriptPrefix \o str(r.ret),
                                            CleanPrefix \o strip(str(r.ret)) \o CleanSuffix>>
    /\ UNCHANGED <<entry, argv, files, response, transcription_output, answer_output,
                   p2a, ui>>

\* main line 75: prompt2answer is called with the cleaned transcript.
MainAnswer ==
    /\ entry = "cli" /\ pc = "Transcribed" /\ p2a.st = "none"
    /\ Begin_prompt2answer(clean_transcript, out, p2a.n)
    /\ UNCHANGED <<entry, argv, files, transcript, clean_transcript,
                   transcription_output, s2t, ui>>

\* main line 80: the answer is printed and main returns.
MainPrint ==
    /\ entry = "cli" /\ pc = "Answered"
    /\ out' = out \o <<ChatbotPrefix \o str(response)>>
    /\ pc' = "Done" /\ exit_code' = 0
    /\ UNCHANGED <<entry, argv, files, transcript, clean_transcript, response,
                   transcription_output, answer_output, s2t, p2a, ui>>

\* ------------------------------------------------------- the two buttons
\* transcribe_btn.click: transcribe_audio(audio_file), lines 11-18, and the
\* value it returns put into the transcription textbox.
TranscribeClick ==
    /\ entry = "ui" /\ p2a.st # "running"
    /\ \E audio_file \in {None} \cup Paths :
         IF audio_file = None
         THEN /\ s2t' = s2t0
              /\ out' = <<>>
              /\ transcription_output' = NoAudioMsg
              /\ ui' = [handler |-> "transcribe_audio", st |-> "returned",
                        ret |-> NoAudioMsg, transcribed |-> "no_audio"]
         ELSE \E eng \in WhisperOutcomes(audio_file) :
                LET r == speech2text(audio_file, eng)
                    v == IF r.ret = None THEN UITranscribeErrorMsg ELSE r.ret
                IN  /\ s2t' = [n |-> 1, audio_path |-> audio_file, cause |-> eng.kind,
                               ret |-> r.ret]
                    /\ out' = r.out
                    /\ IF r.exc
                       THEN /\ transcription_output' = transcription_output
                            /\ ui' = [handler |-> "transcribe_audio", st |-> "raised",
                                      ret |-> None, transcribed |-> "failed"]
                       ELSE /\ transcription_output' = v
                            /\ ui' = [handler |-> "transcribe_audio", st |-> "returned",
                                      ret |-> v,
                                      transcribed |-> IF r.ret = None THEN "failed" ELSE "ok"]
    /\ p2a' = p2a0
    /\ UNCHANGED <<entry, argv, files, pc, transcript, clean_transcript, response,
                   exit_code, answer_output>>

\* ai_btn.click: generate_ai_response(transcription_output), lines 24-27; the
\* call ends here when the text is not actionable, and otherwise when
\* prompt2answer ends.
GenerateClick ==
    /\ entry = "ui" /\ p2a.st # "running"
    /\ IF not_actionable(transcription_output)
       THEN /\ p2a' = p2a0
            /\ out' = <<>>
            /\ answer_output' = PleaseTranscribeMsg
            /\ ui' = [ui EXCEPT !.handler = "generate_ai_response", !.st = "returned",
                                !.ret = PleaseTranscribeMsg]
            /\ UNCHANGED <<pc, response, exit_code>>
       ELSE Begin_prompt2answer(transcription_output, <<>>, 0)
    /\ s2t' = s2t0
    /\ UNCHANGED <<entry, argv, files, transcript, clean_transcript,
                   transcription_output>>

\* ------------------------------------------------------- direct calls
\* speech2text(audio_path) called by an importer of chatbot.py.
CallSpeech2text ==
    /\ entry = "lib" /\ p2a.st # "running"
    /\ \E audio_path \in Paths : \E eng \in WhisperOutcomes(audio_path) :
         LET r == speech2text(audio_path, eng)
         IN  /\ s2t' = [n |-> 1, audio_path |-> audio_path, cause |-> eng.kind,
                        ret |-> r.ret]
             /\ out' = r.out
    /\ p2a' = p2a0
    /\ UNCHANGED <<entry, argv, files, pc, transcript, clean_transcript, response,
                   exit_code, transcription_output, answer_output, ui>>

\* prompt2answer(prompt) called by an importer of chatbot.py.
CallPrompt2answer ==
    /\ entry = "lib" /\ p2a.st # "running"
    /\ \E prompt \in TranscriptTexts : Begin_prompt2answer(prompt, <<>>, 0)
    /\ s2t' = s2t0
    /\ UNCHANGED <<entry, argv, files, transcript, clean_transcript,
                   transcription_output>>

\* ------------------------------------------------------- specification
Next ==
    \/ MainValidate
    \/ MainTranscribe
    \/ MainAnswer
    \/ MainPrint
    \/ TranscribeClick
    \/ GenerateClick
    \/ CallSpeech2text
    \/ CallPrompt2answer
    \/ ChildExit
    \/ Tick
    \/ Expire

Spec == Init /\ [][Next]_vars

\* The interpreter runs main to its end, the clock advances while
\* subprocess.run waits, and its timeout fires; the child process and the
\* user owe nothing.
Fairness ==
    /\ WF_vars(MainValidate)
    /\ WF_vars(MainTranscribe)
    /\ WF_vars(MainAnswer)
    /\ WF_vars(MainPrint)
    /\ WF_vars(Tick)
    /\ WF_vars(Expire)

LiveSpec == Spec /\ Fairness

TypeOK ==
    /\ entry \in {"cli", "ui", "lib"}
    /\ pc \in {"Start", "AudioValidated", "Transcribed", "Answered", "Done", "Errored",
               "Crashed", "Idle"}
    /\ exit_code \in {-1, 0, 1}
    /\ p2a.st \in {"none", "running", "returned"}

\* ------------------------------------------------------- properties
\* The last line printed.
LastLine == out[Len(out)]
\* Some printed line is `line`.
Printed(line) == \E i \in DOMAIN out : out[i] = line

\* The stage changes of a command-line run.
CliSteps == {<<"Start", "AudioValidated">>, <<"Start", "Errored">>,
             <<"AudioValidated", "Transcribed">>, <<"AudioValidated", "Errored">>,
             <<"Transcribed", "Answered">>, <<"Transcribed", "Errored">>,
             <<"Answered", "Done">>}

\* What holds of the stage calls in every state of a command-line run.
C1_Calls ==
    entry = "cli" =>
      /\ s2t.n <= 1 /\ p2a.n <= 1
      /\ s2t.n = 1 => (pc # "Start" /\ Len(argv) >= 2 /\ os_path_exists(argv[2]))
      /\ p2a.n = 1 => /\ s2t.n = 1 /\ s2t.cause = "ok" /\ s2t.ret # None
                      /\ Len(argv) >= 2 /\ os_path_exists(argv[2])
                      /\ pc \in {"Transcribed", "Answered", "Done", "Errored"}
      /\ pc \in {"Answered", "Done"} => (p2a.st = "returned" /\ p2a.ret # None)

\* What holds of every step of a command-line run.
C1_Step ==
    entry = "cli" =>
      /\ pc' # pc => <<pc, pc'>> \in CliSteps
      /\ pc \in {"Done", "Errored"} => (pc' = pc /\ s2t' = s2t /\ p2a' = p2a)

\* C1: in a command-line run speech2text and prompt2answer are each called at
\* most once, prompt2answer only after the audio path was found to exist and
\* speech2text returned a value other than None, and the run goes
\* Start -> AudioValidated -> Transcribed -> Answered -> Done, or from a stage
\* before Done to Errored; in Done and Errored nothing more is called.
C1_Pipeline == [] C1_Calls /\ [][C1_Step]_vars

C1_Witness == entry = "cli" /\ pc = "Done" /\ s2t.n = 1 /\ p2a.n = 1

\* C2: a prompt2answer call with a non-empty prompt returns None or a
\* non-empty text, never the empty text.
C2_AnswerNonEmpty ==
    (p2a.st = "returned" /\ p2a.prompt # <<>>) => p2a.ret # <<>>

\* C3: a speech2text call on an existing audio file returns None or a
\* non-empty text, never the empty text.
C3_TranscriptNonEmpty ==
    (s2t.n > 0 /\ os_path_exists(s2t.audio_path)) => s2t.ret # <<>>

\* C4: generate_ai_response given the empty text, the placeholder
\* "No audio file uploaded" or a text beginning with "Error:" returns
\* "Please transcribe an audio file first." and does not call prompt2answer;
\* so it does whenever the last transcribe_audio call had no audio or failed.
C4_NotActionable ==
    (entry = "ui" /\ ui.handler = "generate_ai_response") =>
      /\ ( \/ transcription_output = <<>>
           \/ transcription_output = NoAudioMsg
           \/ startswith(transcription_output, ErrorMarker)
           \/ ui.transcribed \in {"no_audio", "failed"} )
         => /\ ui.st = "returned" /\ ui.ret = PleaseTranscribeMsg
            /\ answer_output = PleaseTranscribeMsg
            /\ p2a.n = 0 /\ p2a.spawned = <<>>
      /\ ui.transcribed = "no_audio" => transcription_output = NoAudioMsg
      /\ ui.transcribed = "failed" => startswith(transcription_output, ErrorMarker)

C4_Witness ==
    /\ entry = "ui" /\ ui.handler = "generate_ai_response"
    /\ ui.transcribed = "failed" /\ answer_output = PleaseTranscribeMsg

\* C5: when the argument is missing or the audio file does not exist, main
\* exits with code 1, the usage message or a message containing the path is
\* the last thing printed, and neither speech2text nor prompt2answer is called.
C5_ValidationExit ==
    (entry = "cli" /\ pc # "Start" /\ (Len(argv) < 2 \/ ~ os_path_exists(argv[2]))) =>
      /\ pc = "Errored" /\ exit_code = 1
      /\ s2t.n = 0 /\ p2a.n = 0
      /\ IF Len(argv) < 2 THEN out = <<UsageMsg>>
                          ELSE Contains(LastLine, <<"'">> \o argv[2] \o <<"'">>)

C5_Witness ==
    /\ entry = "cli" /\ pc = "Errored" /\ Len(argv) >= 2 /\ argv[2] = PathB
    /\ ~ os_path_exists(argv[2])

\* C6: when speech2text fails (the engine raises) main exits with code 1 and
\* "Failed to transcribe audio" last; when prompt2answer fails (launch
\* failure, non-zero exit, timeout) main exits with code 1 and "Failed to get
\* response from Ollama" last; exit code 0 comes only with both stages
\* succeeded and the transcript and the answer printed, the answer last.
C6_ExitCode ==
    entry = "cli" =>
      /\ s2t.cause = "raise" =>
           /\ pc = "Errored" /\ exit_code = 1 /\ LastLine = TranscribeFailedMsg
           /\ p2a.n = 0
      /\ (p2a.st = "returned" /\ p2a.cause \in {"launch", "nonzero", "timeout"}) =>
           /\ pc = "Errored" /\ exit_code = 1 /\ LastLine = ResponseFailedMsg
      /\ TranscribeFailedMsg # ResponseFailedMsg
      /\ exit_code = 0 =>
           /\ pc = "Done" /\ s2t.cause = "ok" /\ p2a.cause = "ok"
           /\ transcript = s2t.ret /\ response = p2a.ret
           /\ Printed(TranscriptPrefix \o transcript)
           /\ LastLine = ChatbotPrefix \o response
      /\ pc \in {"Done", "Errored"} <=> exit_code # -1
      /\ pc = "Errored" => exit_code = 1

C6_Witness ==
    entry = "cli" /\ pc = "Errored" /\ p2a.cause = "nonzero" /\ exit_code = 1

\* What a finished prompt2answer call shows of the way it ended.
C7_Distinct ==
    p2a.st = "returned" =>
      /\ p2a.child = "hangs" => (p2a.cause = "timeout" /\ p2a.ret = None)
      /\ p2a.cause = "timeout" => (p2a.ret = None /\ Printed(TimedOutMsg))
      /\ p2a.cause = "nonzero" =>
           /\ p2a.ret = None /\ ~ Printed(TimedOutMsg)
           /\ \E i \in DOMAIN out : startswith(out[i], OllamaErrorPrefix)

\* C7: a prompt2answer call whose child process never terminates returns; it
\* returns None with "Ollama command timed out" printed, which a call ended
\* by a non-zero exit never prints (it prints "Error running Ollama: ..."),
\* and never a text.
C7_TimeoutReturns ==
    /\ [] C7_Distinct
    /\ (p2a.st = "running" /\ p2a.child = "hangs")
         ~> (p2a.st = "returned" /\ p2a.child = "hangs" /\ p2a.cause = "timeout")

C7_Witness ==
    /\ p2a.st = "returned" /\ p2a.child = "hangs" /\ p2a.cause = "timeout"
    /\ p2a.elapsed >= timeout

\* C8: prompt2answer starts exactly one process, the program ollama, without
\* a shell, and its last argument is the prompt, character for character.
C8_LiteralArgument ==
    (p2a.st # "none" /\ p2a.cause # "launch") =>
      /\ Len(p2a.spawned) = 1
      /\ p2a.spawned[1].program = "ollama"
      /\ Len(p2a.spawned[1].argv) = 4
      /\ SubSeq(p2a.spawned[1].argv, 1, 3) = <<"ollama", "run", "mistral:latest">>
      /\ p2a.spawned[1].argv[4] = p2a.prompt

C8_Witness ==
    p2a.st = "returned" /\ p2a.prompt = InjectionText /\ Len(p2a.spawned) = 1

\* No uncaught error, and every end is a proper one.
C9_Recovered ==
    /\ pc # "Crashed" /\ ui.st # "raised"
    /\ exit_code # -1 => \/ pc = "Done" /\ exit_code = 0
                         \/ pc = "Errored" /\ exit_code = 1
    /\ ui.st = "returned" => (ui.ret # None /\ ui.ret \in Seq(STRING))
    /\ (s2t.cause = "raise" => s2t.ret = None)
    /\ (p2a.cause \in {"launch", "nonzero", "timeout"} => p2a.ret = None)

\* C9: whatever way speech2text or prompt2answer fails, no exception leaves
\* main or a UI handler: every command-line run ends in Done with exit code 0
\* or in Errored with exit code 1, and every handler call returns a str.
C9_NoUncaughtError ==
    /\ [] C9_Recovered
    /\ (entry = "cli") ~> (pc \in {"Done", "Errored"})
    /\ (ui.st = "running") ~> (ui.st = "returned")

C9_Witness ==
    /\ entry = "ui" /\ ui.handler = "generate_ai_response" /\ ui.st = "returned"
    /\ p2a.cause = "timeout" /\ ui.ret = UIResponseErrorMsg

\* C10: main and generate_ai_response never call prompt2answer with the
\* empty text.
C10_PromptNonEmpty ==
    (entry \in {"cli", "ui"} /\ p2a.n > 0) => p2a.prompt # <<>>

====
